---- MODULE Spec2Model ----
(***************************************************************************)
(* Model of the route selection and kinematic stepping engine of the       *)
(* Ambulance GIS System: RoadMap (core/road_map.py), Ambulance             *)
(* (core/ambulance.py), calculate_distance (utils/geometry.py) and the     *)
(* graph construction of generate_graph (core/simulation.py).              *)
(*                                                                         *)
(* Numbers.  The program computes with Python floats.  The model computes  *)
(* in decimal fixed point: every coordinate, length and speed is an        *)
(* integer count of 1/Scale units, and a square root is rounded down to    *)
(* that resolution.  A score or a duration that the program obtains by a   *)
(* division is kept as a numerator over a denominator that is named where  *)
(* it is introduced, so that comparisons are exact.                        *)
(***************************************************************************)
EXTENDS Integers, Sequences, FiniteSets, TLC

VARIABLES
    graph,            \* RoadMap.graph: nodes, adjacency, edge weights, names
    traffic_cong,     \* the 'traffic_cong' attribute of every node
    ret,              \* the last call of a RoadMap query and what it returned
    speed,            \* Ambulance.speed (units per tick)
    source,           \* Ambulance.source
    destination,      \* Ambulance.destination
    position,         \* Ambulance.position
    best_path,        \* Ambulance.best_path
    next_node,        \* local next_node of drive_to_destination
    final_best_path,  \* local final_best_path of drive_to_destination
    pc,               \* where drive_to_destination stands
    timeout,          \* the duration of the pending env.timeout: <<num, den>>
    pending,          \* the position assigned when the generator resumes
    now,              \* env.now, as a numerator over speed * Scale
    prev,             \* the position before the last assignment to position
    iter,             \* iterations of the inner while loop for this edge
    plans,            \* calls of select_best_path made by the trip
    updates,          \* calls of update_congestion made by the trip
    fault             \* the exception that ended the generator, or "none"

vars == <<graph, traffic_cong, ret, speed, source, destination, position,
          best_path, next_node, final_best_path, pc, timeout, pending, now,
          prev, iter, plans, updates, fault>>

agent_vars == <<speed, source, destination, position, best_path, next_node,
                final_best_path, pc, timeout, pending, now, prev, iter, plans,
                updates, fault>>

-----------------------------------------------------------------------------
(* Fixed point and geometry *)

\* Resolution of the fixed-point numbers standing for the program's floats.
Scale == 1000

\* A point given in whole units, as the program's integer tuples are.
Pt(x, y) == <<x * Scale, y * Scale>>

RECURSIVE SqrtSearch(_, _, _)
SqrtSearch(n, lo, hi) ==
    IF lo >= hi THEN lo
    ELSE LET mid == (lo + hi + 1) \div 2
         IN  IF mid * mid <= n THEN SqrtSearch(n, mid, hi)
             ELSE SqrtSearch(n, lo, mid - 1)

\* math.sqrt, rounded down to the resolution.
ISqrt(n) == SqrtSearch(n, 0, 46340)

calculate_distance_unsquared(point1, point2) ==
    ISqrt((point2[1] - point1[1]) * (point2[1] - point1[1])
          + (point2[2] - point1[2]) * Scale)

\* calculate_distance: sqrt((x2 - x1)^2 + (y2 - y1)^2).
calculate_distance(point1, point2) ==
    ISqrt((point2[1] - point1[1]) * (point2[1] - point1[1])
          + (point2[2] - point1[2]) * (point2[2] - point1[2]))

InSeq(x, s) == \E i \in 1..Len(s) : s[i] = x

SeqToSet(s) == {s[i] : i \in 1..Len(s)}

-----------------------------------------------------------------------------
(* generate_graph: the networkx Graph built from the rows of the two files *)

\* Graph.add_edge on the adjacency: each endpoint gets the other appended to
\* its neighbours unless the edge is already there.
add_edge(adj, p1, p2) ==
    [n \in DOMAIN adj |->
        IF n = p1 /\ ~InSeq(p2, adj[n]) THEN Append(adj[n], p2)
        ELSE IF n = p2 /\ ~InSeq(p1, adj[n]) THEN Append(adj[n], p1)
        ELSE adj[n]]

RECURSIVE AddRoads(_, _)
AddRoads(adj, roads) ==
    IF roads = <<>> THEN adj
    ELSE AddRoads(add_edge(adj, Head(roads)[1], Head(roads)[2]), Tail(roads))

\* points: sequence of <<node, name>>; roads: sequence of <<p1, p2>>.
generate_graph(points, roads) ==
    LET nodes == [i \in 1..Len(points) |-> points[i][1]]
        adj   == AddRoads([n \in SeqToSet(nodes) |-> <<>>], roads)
    IN  [nodes  |-> nodes,
         adj    |-> adj,
         weight |-> [e \in {<<a, b>> \in SeqToSet(nodes) \X SeqToSet(nodes) :
                              InSeq(b, adj[a])}
                        |-> calculate_distance(e[1], e[2])],
         name   |-> [n \in SeqToSet(nodes) |->
                        points[CHOOSE i \in 1..Len(points) : points[i][1] = n][2]]]

Nodes(G) == SeqToSet(G.nodes)

-----------------------------------------------------------------------------
(* RoadMap *)

\* random.randint(a, b), drawn from a few sample values.  The samples reach
\* beyond both ends of the program's range so that the limits a and b decide
\* what can be drawn.
RandomSamples == {-1, 0, 10, 100, 101}

randint_wide(a, b) == {v \in RandomSamples : a <= v /\ v <= b + 1}

randint(a, b) == {v \in RandomSamples : a <= v /\ v <= b}

update_congestion_on_best_path ==
    /\ traffic_cong' \in
          {[n \in Nodes(graph) |->
               IF n \in SeqToSet(best_path) THEN c[n] ELSE traffic_cong[n]] :
             c \in [Nodes(graph) -> randint(0, 100)]}
    /\ graph' = graph

update_congestion_renames ==
    /\ traffic_cong' \in [Nodes(graph) -> randint(0, 100)]
    /\ graph' = [graph EXCEPT !.name = [n \in Nodes(graph) |-> "busy"]]

\* update_congestion: every node of the graph gets a fresh draw; nothing else
\* of the graph is written.
update_congestion ==
    /\ traffic_cong' \in [Nodes(graph) -> randint(0, 100)]
    /\ graph' = graph

\* find_path_cost: the loop over i in range(len(path) - 1), adding the weight
\* of the edge (path[i], path[i + 1]).
RECURSIVE find_path_cost(_, _)
find_path_cost(G, path) ==
    IF Len(path) <= 1 THEN 0
    ELSE G.weight[<<path[1], path[2]>>] + find_path_cost(G, Tail(path))

RECURSIVE find_path_traffic_whole(_, _)
find_path_traffic_whole(cong, path) ==
    IF Len(path) = 0 THEN 0
    ELSE cong[path[1]] + find_path_traffic_whole(cong, Tail(path))

\* find_path_traffic: the loop over i in range(len(path) - 1), adding the
\* congestion of path[i].
RECURSIVE find_path_traffic(_, _)
find_path_traffic(cong, path) ==
    IF Len(path) <= 1 THEN 0
    ELSE cong[path[1]] + find_path_traffic(cong, Tail(path))

\* nx.has_path: destiny is reachable from source.
RECURSIVE Reachable(_, _)
Reachable(G, seen) ==
    LET more == seen \cup {n \in Nodes(G) : \E m \in seen : InSeq(n, G.adj[m])}
    IN  IF more = seen THEN seen ELSE Reachable(G, more)

has_path(G, src, destiny) == destiny \in Reachable(G, {src})

RECURSIVE simple_paths_dfs_first(_, _, _, _)
simple_paths_dfs_first(G, visited, children, target) ==
    IF children = <<>> THEN <<>>
    ELSE LET child == Head(children)
             rest  == simple_paths_dfs_first(G, visited, Tail(children), target)
         IN  IF InSeq(child, visited) THEN rest
             ELSE IF child = target THEN <<Append(visited, child)>>
             ELSE simple_paths_dfs_first(G, Append(visited, child),
                                         G.adj[child], target) \o rest

\* nx.all_simple_paths: depth-first over the neighbours in adjacency order;
\* visited is the path so far and children what is left of the iterator over
\* the neighbours of its last node.  A child already on the path is skipped, a
\* child that is the target yields a path and is not descended into.
RECURSIVE simple_paths_dfs(_, _, _, _)
simple_paths_dfs(G, visited, children, target) ==
    IF children = <<>> THEN <<>>
    ELSE LET child == Head(children)
             rest  == simple_paths_dfs(G, visited, Tail(children), target)
         IN  IF InSeq(child, visited) THEN rest
             ELSE IF child = target THEN <<Append(visited, child)>> \o rest
             ELSE simple_paths_dfs(G, Append(visited, child), G.adj[child],
                                   target) \o rest

all_simple_paths(G, src, target) ==
    simple_paths_dfs(G, <<src>>, G.adj[src], target)

\* find_cost_of_all_path: the dict path -> [distance cost, traffic cost], as
\* the sequence of its items in insertion order; empty when no path exists.
find_cost_of_all_path(G, cong, src, destiny) ==
    IF has_path(G, src, destiny)
    THEN LET possible_path == all_simple_paths(G, src, destiny)
         IN  [i \in 1..Len(possible_path) |->
                 <<possible_path[i],
                   <<find_path_cost(G, possible_path[i]),
                     find_path_traffic(cong, possible_path[i])>>>>]
    ELSE <<>>

PATH_COST_WEIGHT_zero == <<0, 1>>

\* SimulationConfig.PATH_COST_WEIGHT = 0.5 and TRAFFIC_WEIGHT = 2.0, as
\* <<numerator, denominator>>.
PATH_COST_WEIGHT == <<1, 2>>

TRAFFIC_WEIGHT_small == <<2, 100>>

TRAFFIC_WEIGHT == <<2, 1>>

\* total_cost of select_best_path for one dict value, as its numerator over
\* the denominator max_path_cost * PATH_COST_WEIGHT[2] * TRAFFIC_WEIGHT[2],
\* which is the same positive number for every path of one call:
\*   PATH_COST_WEIGHT * (cost / max_path_cost) * 100 + traffic * TRAFFIC_WEIGHT
total_cost(cost_traffic, max_path_cost) ==
    PATH_COST_WEIGHT[1] * TRAFFIC_WEIGHT[2] * cost_traffic[1] * 100
    + cost_traffic[2] * TRAFFIC_WEIGHT[1] * PATH_COST_WEIGHT[2] * max_path_cost

\* max(values, key = v[0])[0]
MaxCost(items) ==
    CHOOSE c \in {items[i][2][1] : i \in 1..Len(items)} :
        \A i \in 1..Len(items) : items[i][2][1] <= c

MinIndex_last(keys) ==
    CHOOSE i \in 1..Len(keys) :
        /\ \A j \in 1..Len(keys) : keys[i] <= keys[j]
        /\ \A j \in (i + 1)..Len(keys) : keys[j] > keys[i]

\* min(items, key): the first item whose key no other item is below.
MinIndex(keys) ==
    CHOOSE i \in 1..Len(keys) :
        /\ \A j \in 1..Len(keys) : keys[i] <= keys[j]
        /\ \A j \in 1..(i - 1) : keys[j] > keys[i]

select_shortest_path(G, cong, src, destiny) ==
    LET items == find_cost_of_all_path(G, cong, src, destiny)
    IN  IF Len(items) > 0
        THEN items[MinIndex([i \in 1..Len(items) |-> items[i][2][1]])][1]
        ELSE <<>>

select_any_path(G, cong, src, destiny) ==
    LET items == find_cost_of_all_path(G, cong, src, destiny)
    IN  IF Len(items) > 0 THEN items[1][1] ELSE <<src>>

\* select_best_path: the path of least total cost, the first of them in the
\* dict's order; the empty tuple when the dict is empty.
select_best_path(G, cong, src, destiny) ==
    LET path_with_cost_traffic == find_cost_of_all_path(G, cong, src, destiny)
    IN  IF Len(path_with_cost_traffic) > 0
        THEN LET max_path_cost == MaxCost(path_with_cost_traffic)
                 keys == [i \in 1..Len(path_with_cost_traffic) |->
                             total_cost(path_with_cost_traffic[i][2],
                                        max_path_cost)]
             IN  path_with_cost_traffic[MinIndex(keys)][1]
        ELSE <<>>

-----------------------------------------------------------------------------
(* Road networks: the rows of points.csv and roads.csv *)

\* Scenario A of the specification.
ScenarioA ==
    generate_graph(<<<<Pt(0, 0), "S">>, <<Pt(3, 4), "N1">>,
                     <<Pt(0, 5), "N2">>, <<Pt(6, 8), "D">>>>,
                   <<<<Pt(0, 0), Pt(3, 4)>>, <<Pt(3, 4), Pt(6, 8)>>,
                     <<Pt(0, 0), Pt(0, 5)>>, <<Pt(0, 5), Pt(6, 8)>>>>)

\* A rectangle with both diagonals: five simple paths between any two nodes.
Crossing ==
    generate_graph(<<<<Pt(0, 0), "A">>, <<Pt(10, 0), "B">>,
                     <<Pt(10, 24), "C">>, <<Pt(0, 24), "D">>>>,
                   <<<<Pt(0, 0), Pt(10, 0)>>, <<Pt(10, 0), Pt(10, 24)>>,
                     <<Pt(10, 24), Pt(0, 24)>>, <<Pt(0, 24), Pt(0, 0)>>,
                     <<Pt(0, 0), Pt(10, 24)>>, <<Pt(10, 0), Pt(0, 24)>>>>)

\* A ring of four roads, one of them oblique.
Ring ==
    generate_graph(<<<<Pt(0, 0), "A">>, <<Pt(10, 0), "B">>,
                     <<Pt(10, 8), "F">>, <<Pt(6, 8), "E">>>>,
                   <<<<Pt(0, 0), Pt(10, 0)>>, <<Pt(10, 0), Pt(10, 8)>>,
                     <<Pt(10, 8), Pt(6, 8)>>, <<Pt(6, 8), Pt(0, 0)>>>>)

\* Two roads that do not meet: two connected components.
Islands ==
    generate_graph(<<<<Pt(0, 0), "A">>, <<Pt(10, 0), "B">>,
                     <<Pt(0, 5), "I">>, <<Pt(3, 9), "J">>>>,
                   <<<<Pt(0, 0), Pt(10, 0)>>, <<Pt(0, 5), Pt(3, 9)>>>>)

\* A ring of five roads: from the corner (0,0) the corner (0,8) is two roads
\* away on one side (8 units) and three on the other (12 units).
Loop ==
    generate_graph(<<<<Pt(0, 0), "S">>, <<Pt(3, 4), "R1">>,
                     <<Pt(3, 8), "R2">>, <<Pt(0, 8), "D">>,
                     <<Pt(0, 4), "L">>>>,
                   <<<<Pt(0, 0), Pt(3, 4)>>, <<Pt(3, 4), Pt(3, 8)>>,
                     <<Pt(3, 8), Pt(0, 8)>>, <<Pt(0, 0), Pt(0, 4)>>,
                     <<Pt(0, 4), Pt(0, 8)>>>>)

Networks == {ScenarioA, Crossing, Ring, Islands}

\* The congestion column of points.csv, which generate_graph takes as it is.
InitialCongestion == {0, 10, 80, 150}

-----------------------------------------------------------------------------
(* Calls of the RoadMap queries *)

NoCall == [op |-> "none", src |-> <<>>, dst |-> <<>>, path |-> <<>>,
           val |-> <<>>]

\* The paths of the graph, single nodes included: the node sequences without
\* repetition whose consecutive nodes are joined by an edge.
IsSimplePath(G, q) ==
    /\ \A i, j \in 1..Len(q) : i # j => q[i] # q[j]
    /\ \A i \in 1..(Len(q) - 1) : <<q[i], q[i + 1]>> \in DOMAIN G.weight

PathsOf(G) ==
    {q \in UNION {[1..k -> Nodes(G)] : k \in 1..Cardinality(Nodes(G))} :
        IsSimplePath(G, q)}

SimplePaths(G, s, d) == {q \in PathsOf(G) : q[1] = s /\ q[Len(q)] = d}

CallSelectBestPath_clears_congestion ==
    /\ ret = NoCall
    /\ \E s, d \in Nodes(graph) :
        /\ s # d
        /\ ret' = [op |-> "select_best_path", src |-> s, dst |-> d,
                   path |-> <<>>,
                   val |-> select_best_path(graph, traffic_cong, s, d)]
        /\ traffic_cong' = [traffic_cong EXCEPT ![s] = 0]
        /\ UNCHANGED <<graph, agent_vars>>

CallSelectBestPath ==
    /\ ret = NoCall
    /\ \E s, d \in Nodes(graph) :
        /\ s # d
        /\ ret' = [op |-> "select_best_path", src |-> s, dst |-> d,
                   path |-> <<>>,
                   val |-> select_best_path(graph, traffic_cong, s, d)]
        /\ UNCHANGED <<graph, traffic_cong, agent_vars>>

CallFindCostOfAllPath ==
    /\ ret = NoCall
    /\ \E s, d \in Nodes(graph) :
        /\ s # d
        /\ ret' = [op |-> "find_cost_of_all_path", src |-> s, dst |-> d,
                   path |-> <<>>,
                   val |-> find_cost_of_all_path(graph, traffic_cong, s, d)]
        /\ UNCHANGED <<graph, traffic_cong, agent_vars>>

CallFindPathCost ==
    /\ ret = NoCall
    /\ \E q \in PathsOf(graph) :
        /\ ret' = [op |-> "find_path_cost", src |-> <<>>, dst |-> <<>>,
                   path |-> q, val |-> find_path_cost(graph, q)]
        /\ UNCHANGED <<graph, traffic_cong, agent_vars>>

CallFindPathTraffic ==
    /\ ret = NoCall
    /\ \E q \in PathsOf(graph) :
        /\ ret' = [op |-> "find_path_traffic", src |-> <<>>, dst |-> <<>>,
                   path |-> q, val |-> find_path_traffic(traffic_cong, q)]
        /\ UNCHANGED <<graph, traffic_cong, agent_vars>>

\* Points that are no nodes: calculate_distance is also called with positions
\* on a road and takes any pair of numbers.
OffRoad == {<<2400, 3200>>, <<0 - 3000, 4000>>}

CallCalculateDistance ==
    /\ ret = NoCall
    /\ \E point1, point2 \in Nodes(graph) \cup OffRoad :
        /\ ret' = [op |-> "calculate_distance", src |-> point1,
                   dst |-> point2, path |-> <<>>,
                   val |-> calculate_distance(point1, point2)]
        /\ UNCHANGED <<graph, traffic_cong, agent_vars>>

\* The caller takes the result; the next call can be made.
Return ==
    /\ ret # NoCall
    /\ ret' = NoCall
    /\ UNCHANGED <<graph, traffic_cong, agent_vars>>

\* A RoadMap over one of the networks, before any Ambulance exists.
InitRoadMap ==
    /\ graph \in Networks
    /\ traffic_cong \in [Nodes(graph) -> InitialCongestion]
    /\ ret = NoCall
    /\ speed = 0
    /\ source = <<>>
    /\ destination = <<>>
    /\ position = <<>>
    /\ best_path = <<>>
    /\ next_node = <<>>
    /\ final_best_path = <<>>
    /\ pc = "idle"
    /\ timeout = <<0, 1>>
    /\ pending = <<>>
    /\ now = 0
    /\ prev = <<>>
    /\ iter = 0
    /\ plans = 0
    /\ updates = 0
    /\ fault = "none"

NextRoadMap ==
    \/ CallSelectBestPath
    \/ CallFindCostOfAllPath
    \/ CallFindPathCost
    \/ CallFindPathTraffic
    \/ CallCalculateDistance
    \/ Return

SpecRoadMap == InitRoadMap /\ [][NextRoadMap]_vars

-----------------------------------------------------------------------------
(* Ambulance.drive_to_destination *)

\* The most planning steps of one trip that the model follows.
MaxPlans == 3

\* The trips that are driven: a network, a source and a destination.
Trips ==
    {[graph |-> Ring, source |-> Pt(0, 0), destination |-> Pt(10, 8)],
     [graph |-> Ring, source |-> Pt(0, 0), destination |-> Pt(10, 0)],
     [graph |-> Ring, source |-> Pt(10, 0), destination |-> Pt(6, 8)],
     [graph |-> Ring, source |-> Pt(6, 8), destination |-> Pt(6, 8)],
     [graph |-> Islands, source |-> Pt(0, 0), destination |-> Pt(10, 0)],
     [graph |-> Islands, source |-> Pt(0, 0), destination |-> Pt(3, 9)],
     [graph |-> Loop, source |-> Pt(0, 0), destination |-> Pt(0, 8)],
     [graph |-> Ring, source |-> Pt(0, 0), destination |-> Pt(20, 20)]}

\* The speeds that are driven, in units per tick.
Speeds == {4, 5, 15}

solve_swapped(start, target, center, radius) ==
    LET coeff1 == target[2] - start[2]
        coeff2 == target[1] - start[1]
        norm   == ISqrt(coeff1 * coeff1 + coeff2 * coeff2)
        dx     == (radius * coeff1) \div norm
        dy     == (radius * coeff2) \div norm
    IN  IF radius = 0 THEN <<center>>
        ELSE <<<<center[1] - dx, center[2] - dy>>,
               <<center[1] + dx, center[2] + dy>>>>

solve_half_radius(start, target, center, radius) ==
    LET coeff1 == target[2] - start[2]
        coeff2 == target[1] - start[1]
        norm   == ISqrt(coeff1 * coeff1 + coeff2 * coeff2)
        dx     == ((radius \div 2) * coeff2) \div norm
        dy     == ((radius \div 2) * coeff1) \div norm
    IN  IF radius = 0 THEN <<center>>
        ELSE <<<<center[1] - dx, center[2] - dy>>,
               <<center[1] + dx, center[2] + dy>>>>

\* solve((eq1, eq2), (x, y)): the points of the line through start and target
\* (eq1, set up when the edge was planned) on the circle of the given radius
\* around center (eq2), center being a point of that line.
solve(start, target, center, radius) ==
    LET coeff1 == target[2] - start[2]
        coeff2 == target[1] - start[1]
        norm   == ISqrt(coeff1 * coeff1 + coeff2 * coeff2)
        dx     == (radius * coeff2) \div norm
        dy     == (radius * coeff1) \div norm
    IN  IF radius = 0 THEN <<center>>
        ELSE <<<<center[1] - dx, center[2] - dy>>,
               <<center[1] + dx, center[2] + dy>>>>

farthest_root(sol, target) ==
    LET keys == [i \in 1..Len(sol) |-> 0 - calculate_distance(sol[i], target)]
    IN  sol[MinIndex(keys)]

\* min(dist_with_next_node.items(), key = distance)[0]
nearest_root(sol, target) ==
    LET keys == [i \in 1..Len(sol) |-> calculate_distance(sol[i], target)]
    IN  sol[MinIndex(keys)]

full_tick_proportional(dist, v) == <<dist, v * Scale>>

\* env.timeout(1): one tick, whatever the distance.
full_tick(dist, v) == <<1, 1>>

time_to_reach_dest_one_tick(dist, v) == <<1, 1>>

\* time_to_reach_dest = dist_from_next_node / self.speed, as a fraction.
time_to_reach_dest(dist, v) == <<dist, v * Scale>>

\* Ambulance(env, my_road, ambulance_speed, source, destination) over the
\* graph that generate_graph built.
Init ==
    /\ \E trip \in Trips :
          /\ graph = trip.graph
          /\ source = trip.source
          /\ destination = trip.destination
          /\ position = trip.source
    /\ traffic_cong \in [Nodes(graph) -> InitialCongestion]
    /\ speed \in Speeds
    /\ ret = NoCall
    /\ best_path = <<>>
    /\ next_node = <<>>
    /\ final_best_path = <<>>
    /\ pc = "start"
    /\ timeout = <<0, 1>>
    /\ pending = <<>>
    /\ now = 0
    /\ prev = <<>>
    /\ iter = 0
    /\ plans = 0
    /\ updates = 0
    /\ fault = "none"

\* What a run accumulates without reading it back to decide a step: the
\* recorded trip, the clock, and the counts of iterations, planning steps and
\* congestion updates.
hist == <<final_best_path, now, iter, plans, updates>>

\* The generator is started and reaches the test of the outer loop.
StartCore ==
    /\ pc = "start"
    /\ pc' = "planning"
    /\ UNCHANGED <<graph, traffic_cong, ret, speed, source, destination,
                   position, best_path, next_node, timeout, pending, prev,
                   fault>>

Start_empty_record ==
    /\ StartCore
    /\ final_best_path' = <<>>
    /\ UNCHANGED <<now, iter, plans, updates>>

\* final_best_path = [self.source]
Start ==
    /\ StartCore
    /\ final_best_path' = <<source>>
    /\ UNCHANGED <<now, iter, plans, updates>>

PlanCore_keeps_route ==
    /\ pc = "planning"
    /\ position # destination
    /\ IF {position, destination} \subseteq Nodes(graph)
       THEN LET path == IF Len(best_path) > 2 THEN Tail(best_path)
                        ELSE select_best_path(graph, traffic_cong, position,
                                              destination)
            IN  /\ best_path' = path
                /\ IF Len(path) < 2
                   THEN /\ fault' = "IndexError"
                        /\ pc' = "failed"
                        /\ next_node' = next_node
                   ELSE /\ next_node' = path[2]
                        /\ pc' = "stepping"
                        /\ fault' = fault
       ELSE /\ fault' = "NodeNotFound"
            /\ pc' = "failed"
            /\ UNCHANGED <<best_path, next_node>>
    /\ UNCHANGED <<graph, traffic_cong, ret, speed, source, destination,
                   position, timeout, pending, prev>>

\* The body of the outer loop up to the inner loop: the best path from the
\* position is selected and its second element becomes next_node.  nx.has_path
\* raises NodeNotFound for an end that is no node of the graph, and indexing a
\* path of fewer than two elements raises IndexError; either ends the
\* generator.
PlanCore ==
    /\ pc = "planning"
    /\ position # destination
    /\ IF {position, destination} \subseteq Nodes(graph)
       THEN LET path == select_best_path(graph, traffic_cong, position,
                                         destination)
            IN  /\ best_path' = path
                /\ IF Len(path) < 2
                   THEN /\ fault' = "IndexError"
                        /\ pc' = "failed"
                        /\ next_node' = next_node
                   ELSE /\ next_node' = path[2]
                        /\ pc' = "stepping"
                        /\ fault' = fault
       ELSE /\ fault' = "NodeNotFound"
            /\ pc' = "failed"
            /\ UNCHANGED <<best_path, next_node>>
    /\ UNCHANGED <<graph, traffic_cong, ret, speed, source, destination,
                   position, timeout, pending, prev>>

\* final_best_path.append(next_node), for at most MaxPlans planning steps.
Plan ==
    /\ plans < MaxPlans
    /\ PlanCore
    /\ plans' = plans + 1
    /\ iter' = IF pc' = "stepping" THEN 0 ELSE iter
    /\ final_best_path' = IF pc' = "stepping"
                          THEN Append(final_best_path, next_node')
                          ELSE final_best_path
    /\ UNCHANGED <<now, updates>>

\* The outer loop ends: the position is the destination.
ArriveCore ==
    /\ pc = "planning"
    /\ position = destination
    /\ pc' = "arrived"
    /\ UNCHANGED <<graph, traffic_cong, ret, speed, source, destination,
                   position, best_path, next_node, timeout, pending, prev,
                   fault>>

Arrive == ArriveCore /\ UNCHANGED hist

\* An iteration of the inner loop with the node within reach: the timeout of
\* dist / speed is yielded and the position will be next_node.
StepSnapCore ==
    /\ pc = "stepping"
    /\ position # next_node
    /\ LET dist_from_next_node == calculate_distance(position, next_node)
       IN  /\ dist_from_next_node <= speed * Scale
           /\ timeout' = time_to_reach_dest(dist_from_next_node, speed)
           /\ pending' = next_node
    /\ pc' = "waiting"
    /\ UNCHANGED <<graph, traffic_cong, ret, speed, source, destination,
                   position, best_path, next_node, prev, fault>>

StepSnap == StepSnapCore /\ UNCHANGED hist

\* An iteration of the inner loop with the node out of reach: the timeout of
\* one tick is yielded and the position will be the intersection point nearer
\* to next_node.
StepMoveCore ==
    /\ pc = "stepping"
    /\ position # next_node
    /\ LET dist_from_next_node == calculate_distance(position, next_node)
           sol == solve(best_path[1], next_node, position, speed * Scale)
       IN  /\ dist_from_next_node > speed * Scale
           /\ timeout' = full_tick(dist_from_next_node, speed)
           /\ pending' = nearest_root(sol, next_node)
    /\ pc' = "waiting"
    /\ UNCHANGED <<graph, traffic_cong, ret, speed, source, destination,
                   position, best_path, next_node, prev, fault>>

StepMove == StepMoveCore /\ UNCHANGED hist

ResumeCore_trims_path ==
    /\ pc = "waiting"
    /\ prev' = position
    /\ position' = pending
    /\ pc' = "stepping"
    /\ best_path' = IF pending = next_node /\ Len(best_path) > 2
                    THEN Tail(best_path) ELSE best_path
    /\ UNCHANGED <<graph, traffic_cong, ret, speed, source, destination,
                   next_node, timeout, pending, fault>>

\* The scheduler has advanced the time by the timeout and the generator
\* resumes: the position is assigned.
ResumeCore ==
    /\ pc = "waiting"
    /\ prev' = position
    /\ position' = pending
    /\ pc' = "stepping"
    /\ UNCHANGED <<graph, traffic_cong, ret, speed, source, destination,
                   best_path, next_node, timeout, pending, fault>>

Resume_counts_ticks ==
    /\ ResumeCore
    /\ now' = now + speed * Scale
    /\ iter' = iter + 1
    /\ UNCHANGED <<final_best_path, plans, updates>>

\* env.now after the timeout, in 1 / (speed * Scale) ticks.
Resume ==
    /\ ResumeCore
    /\ now' = now + (timeout[1] * speed * Scale) \div timeout[2]
    /\ iter' = iter + 1
    /\ UNCHANGED <<final_best_path, plans, updates>>

NodeReached_not_at_destination ==
    /\ pc = "stepping"
    /\ position = next_node
    /\ IF position = destination
       THEN UNCHANGED <<graph, traffic_cong, updates>>
       ELSE update_congestion /\ updates' = updates + 1
    /\ pc' = "planning"
    /\ UNCHANGED <<ret, speed, source, destination, position, best_path,
                   next_node, final_best_path, timeout, pending, now, prev,
                   iter, plans, fault>>

NodeReachedCore_within_reach ==
    /\ pc = "stepping"
    /\ calculate_distance(position, next_node) <= speed * Scale
    /\ update_congestion
    /\ pc' = "planning"
    /\ UNCHANGED <<ret, speed, source, destination, position, best_path,
                   next_node, timeout, pending, prev, fault>>

\* The inner loop ends at next_node: the congestion of the network is
\* refreshed and the outer loop tests the position again.
NodeReachedCore ==
    /\ pc = "stepping"
    /\ position = next_node
    /\ update_congestion
    /\ pc' = "planning"
    /\ UNCHANGED <<ret, speed, source, destination, position, best_path,
                   next_node, timeout, pending, prev, fault>>

NodeReached ==
    /\ NodeReachedCore
    /\ updates' = updates + 1
    /\ UNCHANGED <<final_best_path, now, iter, plans>>

Next ==
    \/ Start
    \/ Plan
    \/ Arrive
    \/ StepSnap
    \/ StepMove
    \/ Resume
    \/ NodeReached

Spec == Init /\ [][Next]_vars

-----------------------------------------------------------------------------
(* What the specification says of a path, stated over sets *)

RECURSIVE SumOver(_, _)
SumOver(S, f) ==
    IF S = {} THEN 0
    ELSE LET x == CHOOSE y \in S : TRUE IN f[x] + SumOver(S \ {x}, f)

\* distance_cost: the sum of the weights of the edges of the path.
DistanceCost(G, q) ==
    SumOver({<<q[i], q[i + 1]>> : i \in 1..(Len(q) - 1)}, G.weight)

\* congestion_cost: the congestion of all nodes of the path but the last.
CongestionCost(cong, q) == SumOver(SeqToSet(q) \ {q[Len(q)]}, cong)

MaxDistance(G, P) ==
    CHOOSE m \in {DistanceCost(G, q) : q \in P} :
        \A q \in P : DistanceCost(G, q) <= m

\* total_score(p) <= total_score(q) for two candidates of one selection, with
\* both sides multiplied by max_distance and by the weights' denominators.
ScoreAtMost(G, cong, p, q, max_distance) ==
    PATH_COST_WEIGHT[1] * TRAFFIC_WEIGHT[2] * DistanceCost(G, p) * 100
      + TRAFFIC_WEIGHT[1] * PATH_COST_WEIGHT[2] * CongestionCost(cong, p)
          * max_distance
    <= PATH_COST_WEIGHT[1] * TRAFFIC_WEIGHT[2] * DistanceCost(G, q) * 100
      + TRAFFIC_WEIGHT[1] * PATH_COST_WEIGHT[2] * CongestionCost(cong, q)
          * max_distance

-----------------------------------------------------------------------------
(* Claims *)

\* C1: for a connected pair of nodes and any congestion, select_best_path
\* returns a simple path from source to destination whose total_score is at
\* most the total_score of every simple path between the two, max_distance
\* being the largest distance_cost among those paths.
C1_BestPathHasLeastScore ==
    ret.op = "select_best_path" =>
        LET P == SimplePaths(graph, ret.src, ret.dst)
        IN  P # {} =>
              /\ ret.val \in P
              /\ \A q \in P :
                    ScoreAtMost(graph, traffic_cong, ret.val, q,
                                MaxDistance(graph, P))

\* A selection among several paths that did not take a shortest one.
C1_Witness ==
    /\ ret.op = "select_best_path"
    /\ \E q \in SimplePaths(graph, ret.src, ret.dst) :
          DistanceCost(graph, q) < DistanceCost(graph, ret.val)

\* C2: on the Scenario A network with congestion S = 0, N1 = 80, N2 = 10 and
\* the default weights, select_best_path(S, D) returns S, N2, D and not the
\* shorter S, N1, D.
C2_ScenarioA ==
    ( /\ graph = ScenarioA
      /\ traffic_cong[Pt(0, 0)] = 0
      /\ traffic_cong[Pt(3, 4)] = 80
      /\ traffic_cong[Pt(0, 5)] = 10
      /\ ret.op = "select_best_path"
      /\ ret.src = Pt(0, 0)
      /\ ret.dst = Pt(6, 8) )
    => ret.val = <<Pt(0, 0), Pt(0, 5), Pt(6, 8)>>

C2_Witness ==
    /\ graph = ScenarioA
    /\ traffic_cong[Pt(0, 0)] = 0
    /\ traffic_cong[Pt(3, 4)] = 80
    /\ traffic_cong[Pt(0, 5)] = 10
    /\ ret.op = "select_best_path"
    /\ ret.src = Pt(0, 0)
    /\ ret.dst = Pt(6, 8)
    /\ ret.val = <<Pt(0, 0), Pt(0, 5), Pt(6, 8)>>
    /\ DistanceCost(graph, <<Pt(0, 0), Pt(3, 4), Pt(6, 8)>>)
         < DistanceCost(graph, ret.val)

\* C3: find_path_cost returns the sum of the weights of the edges between
\* consecutive path nodes, find_path_traffic the sum of the congestion of all
\* path nodes but the last, and both return 0 for a single-node path.
C3_PathCostAndTraffic ==
    /\ ret.op = "find_path_cost" =>
          /\ ret.val = DistanceCost(graph, ret.path)
          /\ Len(ret.path) = 1 => ret.val = 0
    /\ ret.op = "find_path_traffic" =>
          /\ ret.val = CongestionCost(traffic_cong, ret.path)
          /\ Len(ret.path) = 1 => ret.val = 0

\* The traffic of a path of three nodes or more whose last node is congested.
C3_Witness ==
    /\ ret.op = "find_path_traffic"
    /\ Len(ret.path) >= 3
    /\ traffic_cong[ret.path[Len(ret.path)]] > 0
    /\ ret.val > 0

\* C4: for distinct connected nodes the paths scored by find_cost_of_all_path
\* are exactly the simple paths from source to destination, each once.
C4_CandidatesAreTheSimplePaths ==
    ret.op = "find_cost_of_all_path" =>
        LET P == SimplePaths(graph, ret.src, ret.dst)
        IN  P # {} =>
              /\ {ret.val[i][1] : i \in 1..Len(ret.val)} = P
              /\ Len(ret.val) = Cardinality(P)

C4_Witness ==
    /\ ret.op = "find_cost_of_all_path"
    /\ Len(ret.val) >= 5

\* C5: when source and destination lie in different connected components,
\* find_cost_of_all_path returns an empty collection and select_best_path an
\* empty path, as values and without an exception, and congestion and
\* topology are as before the call.
C5_NoPathIsAnEmptyValue ==
    [][ ( /\ ret = NoCall
          /\ ret'.op \in {"find_cost_of_all_path", "select_best_path"}
          /\ SimplePaths(graph, ret'.src, ret'.dst) = {} )
        => /\ ret'.val = <<>>
           /\ fault' = "none"
           /\ traffic_cong' = traffic_cong
           /\ graph' = graph ]_vars

C5_Witness ==
    /\ ret.op = "select_best_path"
    /\ SimplePaths(graph, ret.src, ret.dst) = {}
    /\ ret.val = <<>>

\* C6: at a planning step where select_best_path returns a path of fewer than
\* two nodes, the agent aborts the trip with an explicit fatal condition and
\* never reads the second element of that path.
C6_ShortPathAbortsExplicitly ==
    (plans > 0 /\ Len(best_path) < 2) =>
        (pc = "failed" /\ fault = "NoPathExists")

\* C7: after every call of update_congestion the congestion of every node is
\* an integer in 0..100.
C7_CongestionInRangeAfterUpdate ==
    updates > 0 => \A n \in Nodes(graph) : traffic_cong[n] \in 0..100

\* Both ends of the range have been drawn in one update.
C7_Witness ==
    /\ updates > 0
    /\ \E n \in Nodes(graph) : traffic_cong[n] = 0
    /\ \E n \in Nodes(graph) : traffic_cong[n] = 100

\* C9: an iteration of the inner loop that starts with the distance to
\* next_node at most speed (equal included) yields the timeout
\* remaining / speed and leaves the position at next_node exactly; from (0,0)
\* toward (10,0) at speed 15 the edge takes one iteration of duration 10/15.
C9_SnapStep ==
    /\ (pc = "stepping" /\ iter >= 1
          /\ calculate_distance(prev, next_node) <= speed * Scale)
       => /\ position = next_node
          /\ timeout[1] * speed * Scale
               = timeout[2] * calculate_distance(prev, next_node)
    /\ (pc = "stepping" /\ position = next_node /\ speed = 15
          /\ best_path[1] = Pt(0, 0) /\ next_node = Pt(10, 0))
       => /\ iter = 1
          /\ timeout[1] * 15 = timeout[2] * 10
          /\ plans = 1 => now * 15 = 10 * speed * Scale

\* A snap from exactly one tick's distance.
C9_Witness ==
    /\ pc = "stepping"
    /\ iter >= 1
    /\ calculate_distance(prev, next_node) = speed * Scale
    /\ position = next_node
    /\ timeout[1] = timeout[2]

\* C10: for speed > 0 every iteration of the inner loop strictly decreases
\* the distance from the position to next_node; a full-tick iteration moves
\* the position by exactly speed along the line toward next_node, to the one
\* of the two intersection points that is nearer to next_node.
C10_StepMakesProgress ==
    (pc = "stepping" /\ iter >= 1 /\ speed > 0) =>
        LET before == calculate_distance(prev, next_node)
            after  == calculate_distance(position, next_node)
            other  == <<2 * prev[1] - position[1], 2 * prev[2] - position[2]>>
        IN  /\ after < before
            /\ before > speed * Scale =>
                  /\ calculate_distance(prev, position) = speed * Scale
                  /\ after = before - speed * Scale
                  /\ calculate_distance(other, next_node) > after

\* The second full tick along an oblique road.
C10_Witness ==
    /\ pc = "stepping"
    /\ iter >= 2
    /\ calculate_distance(prev, next_node) > speed * Scale
    /\ prev[1] # position[1]
    /\ prev[2] # position[2]

-----------------------------------------------------------------------------
(* The inner loop: stepping along one road *)

CeilDiv(a, b) == (a + b - 1) \div b

\* C11: for an edge of length d the inner loop toward next_node ends after
\* exactly ceil(d / speed) iterations: all but the last take one full tick and
\* lie speed further along the edge each, the last is the snap onto the node.
\* From (0,0) toward (10,0) at speed 4 the positions are (4,0), (8,0), (10,0).
C11_SteppingTakesCeilIterations ==
    (pc = "stepping") =>
        LET start == best_path[1]
            d     == calculate_distance(start, next_node)
            v     == speed * Scale
        IN  /\ d > 0
            /\ iter <= CeilDiv(d, v)
            /\ (position = next_node) <=> (iter = CeilDiv(d, v))
            /\ (position = next_node) =>
                  timeout = <<calculate_distance(prev, next_node), v>>
            /\ (position # next_node) =>
                  /\ calculate_distance(start, position) = iter * v
                  /\ calculate_distance(position, next_node) = d - iter * v
                  /\ iter >= 1 => timeout = <<1, 1>>
            /\ (start = Pt(0, 0) /\ next_node = Pt(10, 0) /\ speed = 4) =>
                  position = CASE iter = 0 -> Pt(0, 0)
                               [] iter = 1 -> <<4 * Scale, 0>>
                               [] iter = 2 -> <<8 * Scale, 0>>
                               [] OTHER    -> Pt(10, 0)

C11_Witness ==
    /\ pc = "stepping"
    /\ best_path[1] = Pt(0, 0)
    /\ next_node = Pt(10, 0)
    /\ speed = 4
    /\ position = next_node
    /\ iter = 3
    /\ prev = <<8 * Scale, 0>>

\* C12: every timeout D handed to the scheduler has 0 < D <= 1: it is exactly
\* one tick when the remaining distance to next_node exceeds the speed and
\* remaining / speed otherwise; the simulated time never decreases.
C12_TimeAdvance ==
    [][ /\ (pc' = "waiting") =>
             LET remaining == calculate_distance(position, next_node)
                 v         == speed * Scale
                 D         == timeout'
             IN  /\ D[2] > 0
                 /\ 0 < D[1]
                 /\ D[1] <= D[2]
                 /\ (remaining > v) => (D = <<1, 1>>)
                 /\ (remaining <= v) => (D[1] * v = remaining * D[2])
        /\ now' >= now
        /\ (pc = "waiting") => (now' > now)
      ]_vars

C12_Witness ==
    /\ pc = "waiting"
    /\ now > 0
    /\ timeout[1] < timeout[2]
    /\ calculate_distance(position, next_node) < speed * Scale

-----------------------------------------------------------------------------
(* The outer loop: congestion updates and the recorded trip *)

\* C13: update_congestion runs exactly once per arrival at next_node, after the
\* position became the node and before the next planning step, never between
\* two nodes, and also at the destination: updates trail the planning steps by
\* one while an edge is driven and equal them otherwise, so at ARRIVED both
\* counts are the same.
C13_OneUpdatePerNodeReached ==
    /\ [](/\ (pc \in {"start", "planning", "arrived"}) => (updates = plans)
          /\ (pc \in {"stepping", "waiting", "failed"}) => (updates = plans - 1))
    /\ [][ /\ (updates' # updates \/ traffic_cong' # traffic_cong) =>
                /\ pc = "stepping"
                /\ position = next_node
                /\ position' = position
                /\ updates' = updates + 1
                /\ pc' = "planning"
           /\ (pc = "stepping" /\ position = next_node) =>
                updates' = updates + 1
         ]_vars

C13_Witness ==
    /\ pc = "arrived"
    /\ plans = 2
    /\ updates = 2
    /\ position = destination

Last(s) == s[Len(s)]

IsRoad(G, a, b) == <<a, b>> \in DOMAIN G.weight

\* C15: the recorded trip is the source followed by the next_node of each
\* planning step in order; at ARRIVED its first element is the source, its last
\* the destination, its length the number of planning steps plus one, and
\* consecutive elements are joined by a road.
C15_RecordedTripPath ==
    /\ [](pc = "arrived" =>
             /\ Len(final_best_path) = plans + 1
             /\ final_best_path[1] = source
             /\ Last(final_best_path) = destination
             /\ \A i \in 1..(Len(final_best_path) - 1) :
                   IsRoad(graph, final_best_path[i], final_best_path[i + 1]))
    /\ [][IF pc = "planning" /\ pc' = "stepping"
          THEN final_best_path' = Append(final_best_path, next_node')
          ELSE pc # "start" => final_best_path' = final_best_path]_vars

C15_Witness ==
    /\ pc = "arrived"
    /\ source # destination
    /\ Len(final_best_path) = 3
    /\ plans = 2

-----------------------------------------------------------------------------
(* Configurations and congestion supplied from outside *)

InvalidConfiguration ==
    speed <= 0 \/ ~({source, destination} \subseteq Nodes(graph))

\* C16: an agent whose speed is not positive, or whose source or destination is
\* no node of the network, is rejected at construction with
\* InvalidConfiguration: no planning step and no stepping iteration is taken
\* with such a configuration, and no other error comes of it.
C16_InvalidConfigurationRejected ==
    InvalidConfiguration =>
        /\ plans = 0
        /\ iter = 0
        /\ pc \notin {"stepping", "waiting"}
        /\ fault \in {"none", "InvalidConfiguration"}

\* C17: in every state of a run, the states before the first update_congestion
\* included, the congestion of every node is within 0..100.
C17_CongestionAlwaysInRange ==
    \A n \in Nodes(graph) : traffic_cong[n] \in 0..100

-----------------------------------------------------------------------------
(* update_congestion: what it writes *)

\* C18: no step of the core changes the node set, the edge set, an edge weight
\* or a node name of the graph; the congestion is written by update_congestion
\* alone, which writes nothing else of the graph.
C18_GraphStructureIsFrozen ==
    [][ /\ graph'.nodes = graph.nodes
        /\ graph'.adj = graph.adj
        /\ graph'.weight = graph.weight
        /\ graph'.name = graph.name
        /\ DOMAIN traffic_cong' = Nodes(graph)
        /\ (traffic_cong' # traffic_cong) =>
              (pc = "stepping" /\ position = next_node /\ pc' = "planning")
      ]_vars

C18_Witness ==
    /\ updates = 1
    /\ pc = "stepping"
    /\ plans = 2
    /\ graph = Loop
    /\ \E n \in Nodes(graph) : traffic_cong[n] = 100

\* The assignments update_congestion can leave behind, whatever was there.
FreshCongestion(G) == [Nodes(G) -> RandomSamples \cap (0..100)]

\* C19: a call of update_congestion overwrites the congestion of every node,
\* the nodes off the current best_path included, and the assignments it can
\* produce are the same set whatever the congestion was before: every
\* assignment of draws is a possible outcome, and nothing else is.
C19_UpdateOverwritesEveryNode ==
    /\ []((pc = "stepping" /\ position = next_node) =>
             /\ \A c \in FreshCongestion(graph) :
                   ENABLED (traffic_cong' = c /\ NodeReached)
             /\ \A n \in Nodes(graph) : \A v \in InitialCongestion \ (0..100) :
                   ~ ENABLED (traffic_cong' = [traffic_cong EXCEPT ![n] = v]
                              /\ NodeReached))
    /\ [][(updates' # updates) => traffic_cong' \in FreshCongestion(graph)]_vars

C19_Witness ==
    /\ pc = "planning"
    /\ updates = 1
    /\ graph = Loop
    /\ \E n \in Nodes(graph) \ SeqToSet(best_path) :
          /\ traffic_cong[n] = 100
          /\ \E m \in Nodes(graph) \ (SeqToSet(best_path) \cup {n}) :
                traffic_cong[m] = 0

-----------------------------------------------------------------------------
(* calculate_distance *)

\* C20: calculate_distance(A, B) = calculate_distance(B, A) for all points, and
\* calculate_distance(A, A) = 0; the value is the root of the sum of the two
\* squared differences, to the resolution.
C20_DistanceIsSymmetric ==
    (ret.op = "calculate_distance") =>
        LET A  == ret.src
            B  == ret.dst
            sq == (A[1] - B[1]) * (A[1] - B[1]) + (A[2] - B[2]) * (A[2] - B[2])
        IN  /\ ret.val = calculate_distance(B, A)
            /\ (A = B) => (ret.val = 0)
            /\ ret.val >= 0
            /\ ret.val * ret.val <= sq
            /\ sq < (ret.val + 1) * (ret.val + 1)

C20_Witness ==
    /\ ret.op = "calculate_distance"
    /\ ret.src = <<0 - 3000, 4000>>
    /\ ret.dst = Pt(0, 0)
    /\ ret.val = 5 * Scale

-----------------------------------------------------------------------------
(* Runs of any length: the trip without its record and counters *)

NextLive ==
    \/ StartCore /\ UNCHANGED hist
    \/ PlanCore /\ UNCHANGED hist
    \/ ArriveCore /\ UNCHANGED hist
    \/ StepSnapCore /\ UNCHANGED hist
    \/ StepMoveCore /\ UNCHANGED hist
    \/ ResumeCore /\ UNCHANGED hist
    \/ NodeReachedCore /\ UNCHANGED hist

\* The generator moves on: every step of the trip leaves its place in the
\* code, and one is possible wherever the generator has not ended.
Proceed ==
    /\ pc \in {"start", "planning", "stepping", "waiting"}
    /\ pc' \in {"planning", "stepping", "waiting", "arrived", "failed"} \ {pc}

\* env.run() resumes the generator after every timeout and the generator runs
\* to its next yield: a run stops only where the generator has ended.
SpecLive == Init /\ [][NextLive]_vars /\ WF_pc(Proceed)

Connected(G) == \A a, b \in Nodes(G) : has_path(G, a, b)

\* The networks with a path between every two nodes.
ConnectedNetworks == {G \in Networks \cup {Loop} : Connected(G)}

ValidTrip ==
    /\ graph \in ConnectedNetworks
    /\ speed > 0
    /\ {source, destination} \subseteq Nodes(graph)
    /\ source # destination

\* The update whose draw is 0 for every node.
CalmUpdate ==
    /\ NodeReachedCore
    /\ traffic_cong' = [n \in Nodes(graph) |-> 0]
    /\ UNCHANGED hist

-----------------------------------------------------------------------------
(* Planning at the nodes *)

\* C21: at every planning step, those after a node arrival included, best_path
\* is a path of least total_score from the position to the destination under
\* the congestion as the most recent update left it; neither the path planned
\* before nor older congestion enters.
C21_PlansFromCurrentCongestion ==
    [][(pc = "planning" /\ pc' = "stepping") =>
          LET P == {q : q \in SimplePaths(graph, position, destination)}
              max_distance == MaxDistance(graph, P)
          IN  /\ best_path' \in P
              /\ \A q \in P :
                    ScoreAtMost(graph, traffic_cong, best_path', q,
                                max_distance)
              /\ best_path' = select_best_path(graph, traffic_cong, position,
                                               destination)
              /\ traffic_cong' = traffic_cong
      ]_vars

\* The second plan, made at (3,4), leads back to the source although the first
\* plan ran on over (3,8).
C21_Witness ==
    /\ graph = Loop
    /\ pc = "stepping"
    /\ plans = 2
    /\ updates = 1
    /\ position = Pt(3, 4)
    /\ next_node = source
    /\ best_path = <<Pt(3, 4), Pt(0, 0), Pt(0, 4), Pt(0, 8)>>

\* The place of a path in the enumeration of find_cost_of_all_path.
IndexOfPath(items, q) == CHOOSE i \in 1..Len(items) : items[i][1] = q

\* C22: among the simple paths that share the least total_score,
\* select_best_path returns the one enumerated first: every path enumerated
\* before the returned one scores strictly more.
C22_FirstMinimalPathWins ==
    (ret.op = "select_best_path" /\ ret.val # <<>>) =>
        LET items == find_cost_of_all_path(graph, traffic_cong, ret.src,
                                           ret.dst)
            P     == {items[i][1] : i \in 1..Len(items)}
            max_distance == MaxDistance(graph, P)
            best  == IndexOfPath(items, ret.val)
        IN  /\ ret.val \in P
            /\ \A j \in 1..Len(items) :
                  ScoreAtMost(graph, traffic_cong, ret.val, items[j][1],
                              max_distance)
            /\ \A j \in 1..(best - 1) :
                  ~ ScoreAtMost(graph, traffic_cong, items[j][1], ret.val,
                                max_distance)

\* A selection with a tie: a path enumerated later scores the same.
C22_Witness ==
    /\ ret.op = "select_best_path"
    /\ ret.val # <<>>
    /\ LET items == find_cost_of_all_path(graph, traffic_cong, ret.src,
                                          ret.dst)
           P     == {items[i][1] : i \in 1..Len(items)}
           best  == IndexOfPath(items, ret.val)
       IN  \E j \in (best + 1)..Len(items) :
              ScoreAtMost(graph, traffic_cong, items[j][1], ret.val,
                          MaxDistance(graph, P))

-----------------------------------------------------------------------------
(* The agent between two nodes *)

\* p lies on the segment from a to b: on the line through both and between
\* them.
OnSegment(p, a, b) ==
    LET cross == (p[1] - a[1]) * (b[2] - a[2]) - (p[2] - a[2]) * (b[1] - a[1])
        dot   == (p[1] - a[1]) * (b[1] - a[1]) + (p[2] - a[2]) * (b[2] - a[2])
        len2  == (b[1] - a[1]) * (b[1] - a[1]) + (b[2] - a[2]) * (b[2] - a[2])
    IN  cross = 0 /\ 0 <= dot /\ dot <= len2

\* C23: at every yielded timeout the agent can be resumed from what it holds:
\* best_path is a simple path of the network with at least two nodes that
\* ends at the destination, its first node is the node last reached, its
\* second is next_node, and the position, like the position assigned at the
\* resumption, lies on the segment between the two.
C23_ConsistentAtSuspension ==
    (pc = "waiting") =>
        /\ Len(best_path) >= 2
        /\ IsSimplePath(graph, best_path)
        /\ Last(best_path) = destination
        /\ Len(final_best_path) >= 2
        /\ best_path[1] = final_best_path[Len(final_best_path) - 1]
        /\ best_path[2] = next_node
        /\ Last(final_best_path) = next_node
        /\ OnSegment(position, best_path[1], best_path[2])
        /\ OnSegment(pending, best_path[1], best_path[2])

\* Suspended in the middle of the oblique road, with two roads still ahead.
C23_Witness ==
    /\ pc = "waiting"
    /\ graph = Loop
    /\ position = <<2400, 3200>>
    /\ pending = next_node
    /\ Len(best_path) = 4

\* C24: between a planning step and the arrival at next_node only the
\* position and the simulated time change (with the pending timeout and the
\* place in the code): best_path, next_node, the congestion of every node,
\* speed, source and destination stay as they are; best_path changes only at
\* a planning step and speed, source and destination never.
C24_SteppingChangesPositionAndTime ==
    [][ /\ (pc \in {"stepping", "waiting"} /\ pc' \in {"stepping", "waiting"})
             => /\ best_path' = best_path
                /\ next_node' = next_node
                /\ traffic_cong' = traffic_cong
                /\ final_best_path' = final_best_path
                /\ plans' = plans
        /\ (best_path' # best_path \/ next_node' # next_node)
              => (pc = "planning")
        /\ (position' # position \/ now' # now)
              => (pc = "waiting" /\ pc' = "stepping")
        /\ <<speed, source, destination>>' = <<speed, source, destination>>
      ]_vars

\* Two iterations into a road, short of next_node.
C24_Witness ==
    /\ pc = "stepping"
    /\ iter = 2
    /\ position # next_node
    /\ position # best_path[1]
    /\ now = 2 * speed * Scale

-----------------------------------------------------------------------------
(* The start form: validators and MainWindow._on_start_click *)

\* ui_config.LOCATIONS
LOCATIONS ==
    <<"Pulchowk", "Baneswor", "Thapathali", "Maitighar", "Gwarko", "Patan",
      "RNAC", "Balaju", "Kapan", "Chabel">>

\* The longest text typed into the speed entry.
MaxText == 3

\* The keys typed into the speed entry; a text is a sequence of them.
Keys == {"0", "1", "2", " ", "-", "a"}

Digits == <<"0", "1", "2">>

\* What the two comboboxes can hold when the button is pressed.
Selections == {"", " ", "Pulchowk", "Baneswor", "Nowhere"}

\* str.strip(): the text without the blanks at its two ends.
RECURSIVE lstrip(_)
lstrip(text) ==
    IF text # <<>> /\ Head(text) = " " THEN lstrip(Tail(text)) ELSE text

RECURSIVE rstrip(_)
rstrip(text) ==
    IF text # <<>> /\ text[Len(text)] = " "
    THEN rstrip(SubSeq(text, 1, Len(text) - 1)) ELSE text

strip(text) == rstrip(lstrip(text))

DigitValue(key) == (CHOOSE i \in 1..Len(Digits) : Digits[i] = key) - 1

RECURSIVE DecimalValue(_)
DecimalValue(digits) ==
    IF digits = <<>> THEN 0
    ELSE 10 * DecimalValue(SubSeq(digits, 1, Len(digits) - 1))
         + DigitValue(digits[Len(digits)])

\* int(speed_str): blanks around, an optional sign, then digits only;
\* anything else is a ValueError.
int(text) ==
    LET body   == strip(text)
        signed == body # <<>> /\ Head(body) = "-"
        digits == IF signed THEN Tail(body) ELSE body
    IN  IF digits # <<>> /\ \A i \in 1..Len(digits) : InSeq(digits[i], Digits)
        THEN [error |-> "none",
              value |-> IF signed THEN 0 - DecimalValue(digits)
                        ELSE DecimalValue(digits)]
        ELSE [error |-> "ValueError", value |-> 0]

\* validate_location: the message of the ValidationError, or "ok".  A
\* selection is one string here; " " is the selection that is blank.
validate_location(location, field_name) ==
    IF location = "" \/ location = " "
    THEN field_name \o " must be selected"
    ELSE IF ~InSeq(location, LOCATIONS)
    THEN field_name \o " must be one of the available locations"
    ELSE "ok"

validate_speed_unbounded(speed_str) ==
    IF speed_str = <<>> \/ strip(speed_str) = <<>>
    THEN [error |-> "Speed must be entered", value |-> 0]
    ELSE LET parsed == int(speed_str)
         IN  IF parsed.error # "none"
             THEN [error |-> "Speed must be a valid number", value |-> 0]
             ELSE IF parsed.value <= 0
             THEN [error |-> "Speed must be a positive number", value |-> 0]
             ELSE [error |-> "ok", value |-> parsed.value]

\* validate_speed: the message of the ValidationError, or "ok" and the speed.
validate_speed(speed_str) ==
    IF speed_str = <<>> \/ strip(speed_str) = <<>>
    THEN [error |-> "Speed must be entered", value |-> 0]
    ELSE LET parsed == int(speed_str)
         IN  IF parsed.error # "none"
             THEN [error |-> "Speed must be a valid number", value |-> 0]
             ELSE IF parsed.value <= 0
             THEN [error |-> "Speed must be a positive number", value |-> 0]
             ELSE IF parsed.value > 200
             THEN [error |-> "Speed must be 200 or less", value |-> 0]
             ELSE [error |-> "ok", value |-> parsed.value]

\* validate_route
validate_route(src, dst) ==
    IF src = dst THEN "Source and destination cannot be the same" ELSE "ok"


\* The points file as _get_coordinates finds it: its rows <<(x, y), name>>, or
\* no file at all.
PointsFiles ==
    {"FileNotFoundError",
     <<<<Pt(0, 0), "Pulchowk">>, <<Pt(10, 0), "Baneswor">>,
       <<Pt(10, 8), "Patan">>, <<Pt(6, 8), "Pulchowk">>>>,
     <<<<Pt(0, 0), "Pulchowk">>, <<Pt(10, 0), "Patan">>>>}

None == <<>>

\* _get_coordinates: the coordinates of the first row of that name, None when
\* there is no such row or no file.
get_coordinates(file, location_name) ==
    IF file = "FileNotFoundError" THEN None
    ELSE LET hits == {i \in 1..Len(file) : file[i][2] = location_name}
         IN  IF hits = {} THEN None
             ELSE file[CHOOSE i \in hits : \A j \in hits : i <= j][1]

\* The form as the window shows it first: nothing selected, nothing typed.
InitUI ==
    /\ graph \in PointsFiles
    /\ source = ""
    /\ destination = ""
    /\ speed = <<>>
    /\ pc = "form"
    /\ ret = NoCall
    /\ fault = "none"
    /\ traffic_cong = <<>>
    /\ position = <<>>
    /\ best_path = <<>>
    /\ next_node = <<>>
    /\ final_best_path = <<>>
    /\ timeout = <<0, 1>>
    /\ pending = <<>>
    /\ now = 0
    /\ prev = <<>>
    /\ iter = 0
    /\ plans = 0
    /\ updates = 0

form_rest ==
    <<graph, traffic_cong, position, best_path, next_node, final_best_path,
      timeout, pending, now, prev, iter, plans, updates>>

SelectSource ==
    /\ pc = "form"
    /\ source' \in Selections
    /\ UNCHANGED <<destination, speed, pc, ret, fault, form_rest>>

SelectDestination ==
    /\ pc = "form"
    /\ destination' \in Selections
    /\ UNCHANGED <<source, speed, pc, ret, fault, form_rest>>

KeyPress ==
    /\ pc = "form"
    /\ Len(speed) < MaxText
    /\ \E key \in Keys : speed' = Append(speed, key)
    /\ UNCHANGED <<source, destination, pc, ret, fault, form_rest>>

BackSpace ==
    /\ pc = "form"
    /\ speed # <<>>
    /\ speed' = SubSeq(speed, 1, Len(speed) - 1)
    /\ UNCHANGED <<source, destination, pc, ret, fault, form_rest>>

showerror(message) ==
    /\ fault' = message
    /\ pc' = "message"
    /\ ret' = ret

\* MainWindow._on_start_click: the four validations in their order, the two
\* lookups, then main_function; a ValidationError or a missing coordinate ends
\* in a message box instead.
on_start_click ==
    /\ pc = "form"
    /\ LET source_error == validate_location(source, "Source")
           dest_error   == validate_location(destination, "Destination")
           route_error  == validate_route(source, destination)
           speed_value  == validate_speed(speed)
           source_coords == get_coordinates(graph, source)
           dest_coords   == get_coordinates(graph, destination)
       IN  IF source_error # "ok" THEN showerror(source_error)
           ELSE IF dest_error # "ok" THEN showerror(dest_error)
           ELSE IF route_error # "ok" THEN showerror(route_error)
           ELSE IF speed_value.error # "ok" THEN showerror(speed_value.error)
           ELSE IF source_coords = None \/ dest_coords = None
           THEN showerror("Could not find coordinates for selected locations")
           ELSE /\ ret' = [op |-> "main_function", src |-> source_coords,
                           dst |-> dest_coords, path |-> <<>>,
                           val |-> speed_value.value]
                /\ pc' = "simulating"
                /\ fault' = fault
    /\ UNCHANGED <<source, destination, speed, form_rest>>

\* The message box is closed.
Dismiss ==
    /\ pc = "message"
    /\ pc' = "form"
    /\ fault' = "none"
    /\ UNCHANGED <<source, destination, speed, ret, form_rest>>

\* main_function has returned; the form takes input again.
SimulationEnds ==
    /\ pc = "simulating"
    /\ pc' = "form"
    /\ ret' = NoCall
    /\ UNCHANGED <<source, destination, speed, fault, form_rest>>

NextUI ==
    \/ SelectSource
    \/ SelectDestination
    \/ KeyPress
    \/ BackSpace
    \/ on_start_click
    \/ Dismiss
    \/ SimulationEnds

SpecUI == InitUI /\ [][NextUI]_vars

\* C25: main_function is started only when validate_location of both
\* selections, validate_route and validate_speed succeeded and both
\* coordinates were found: whenever it runs, source and destination are two
\* different names of LOCATIONS and the speed is an integer from 1 to 200;
\* when a validation fails, a message is shown and nothing is started.
C25_StartOnlyAfterValidation ==
    /\ [](/\ (pc = "simulating") =>
                /\ ret.op = "main_function"
                /\ InSeq(source, LOCATIONS)
                /\ InSeq(destination, LOCATIONS)
                /\ source # destination
                /\ ret.val \in 1..200
                /\ ret.val = int(speed).value
                /\ int(speed).error = "none"
                /\ ret.src # None
                /\ ret.dst # None
                /\ ret.src = get_coordinates(graph, source)
                /\ ret.dst = get_coordinates(graph, destination)
          /\ (pc # "simulating") => (ret = NoCall)
          /\ (pc = "message") <=> (fault # "none"))
    /\ [][(pc = "form" /\ pc' # "form") =>
             LET failed ==
                   \/ validate_location(source, "Source") # "ok"
                   \/ validate_location(destination, "Destination") # "ok"
                   \/ validate_route(source, destination) # "ok"
                   \/ validate_speed(speed).error # "ok"
             IN  /\ failed => (pc' = "message" /\ ret' = NoCall)
                 /\ (pc' = "simulating") => ~failed
         ]_vars

\* Started with the largest speed there is.
C25_Witness ==
    /\ pc = "simulating"
    /\ ret.op = "main_function"
    /\ ret.val = 200
    /\ source = "Pulchowk"
    /\ destination = "Baneswor"
    /\ ret.dst = Pt(10, 0)

-----------------------------------------------------------------------------
(* The queries of the RoadMap write nothing *)

\* C26: select_best_path, find_cost_of_all_path, find_path_cost and
\* find_path_traffic only read: a call of any of them, between connected nodes
\* or not, leaves the congestion of every node, the graph and the state of the
\* agent (position and best_path among it) as they were.
C26_QueriesAreReadOnly ==
    [][(ret'.op \in {"select_best_path", "find_cost_of_all_path",
                     "find_path_cost", "find_path_traffic"}) =>
          /\ ret = NoCall
          /\ traffic_cong' = traffic_cong
          /\ graph' = graph
          /\ position' = position
          /\ best_path' = best_path
          /\ agent_vars' = agent_vars
      ]_vars

\* A selection between two nodes without a path has returned, the congestion
\* being what it was supplied as.
C26_Witness ==
    /\ ret.op = "select_best_path"
    /\ graph = Islands
    /\ ~ has_path(graph, ret.src, ret.dst)
    /\ ret.val = <<>>
    /\ \A n \in Nodes(graph) : traffic_cong[n] = 150

-----------------------------------------------------------------------------
(* Where plans are made, and how long a road takes *)

\* C27: with a source that is a node, every planning step is made at a node of
\* the network, never at a point within a road, and the next_node it chooses
\* is a neighbour of that node.
C27_PlansAtNodes ==
    (source \in Nodes(graph)) =>
        /\ (pc \in {"planning", "arrived", "failed"}) =>
              position \in Nodes(graph)
        /\ (pc \in {"stepping", "waiting"}) =>
              /\ best_path[1] \in Nodes(graph)
              /\ next_node \in Nodes(graph)
              /\ IsRoad(graph, best_path[1], next_node)
              /\ InSeq(next_node, graph.adj[best_path[1]])
              /\ (iter = 0) => (position = best_path[1])

\* A plan just made at a node other than the source.
C27_Witness ==
    /\ pc = "stepping"
    /\ iter = 0
    /\ plans = 2
    /\ position # source
    /\ position = best_path[1]
    /\ IsRoad(graph, position, next_node)

\* The summed length of the roads along a sequence of nodes, a road counted
\* each time it is driven.
RECURSIVE TripLength(_, _)
TripLength(G, nodes) ==
    IF Len(nodes) < 2 THEN 0
    ELSE G.weight[<<nodes[1], nodes[2]>>] + TripLength(G, Tail(nodes))

\* C28: the simulated time from leaving a node to reaching next_node is the
\* length of the road divided by the speed, and the time of a completed trip is
\* the summed length of the roads of the recorded trip divided by the speed;
\* on the way, the time is the length driven so far divided by the speed.
\* (now counts 1 / (speed * Scale) ticks, so now is a length in 1 / Scale.)
C28_TimeIsLengthOverSpeed ==
    /\ (pc \in {"planning", "arrived"}) =>
          now = TripLength(graph, final_best_path)
    /\ (pc = "stepping") =>
          /\ now = TripLength(graph, SubSeq(final_best_path, 1,
                                            Len(final_best_path) - 1))
                   + calculate_distance(best_path[1], position)
          /\ (position = next_node) =>
                now = TripLength(graph, final_best_path)

\* The long side of the loop, 5 + 4 + 3 long, driven in 12 / 5 ticks.
C28_Witness ==
    /\ pc = "arrived"
    /\ graph = Loop
    /\ speed = 5
    /\ Len(final_best_path) = 4
    /\ now = 12 * Scale

====
